---------------------------- MODULE Spec2Model ----------------------------
(***************************************************************************)
(* A model of the multipole index bookkeeping (smuthi/index_conversion.py),*)
(* the Sommerfeld contour and z-wavenumber (smuthi/coordinates.py) and the *)
(* layer mediated coupling block (smuthi/particle_coupling.py).            *)
(*                                                                         *)
(* Each component has its own specification over the same variables; a     *)
(* specification leaves the variables of the other components at their     *)
(* idle values.                                                            *)
(***************************************************************************)
EXTENDS Integers, Sequences, FiniteSets

VARIABLES
    index_order,                \* index_conversion.index_order (module global)
    maximal_multipole_degree,   \* index_conversion.maximal_multipole_degree
    maximal_multipole_order,    \* index_conversion.maximal_multipole_order
    call,                       \* the last call of the index module and its outcome
    contour,                    \* the ComplexContour object: its two fields
    neff_result,                \* the outcome of the last call of contour.neff()
    kz_call,                    \* the call of coordinates.k_z and what it returned
    block_call,                 \* the call of layer_mediated_coupling_block
    matrix_call,                \* the call of layer_mediated_coupling_matrix
    memo,                       \* Memoize.memo: serialized arguments -> result
    memo_calls,                 \* the calls of the Memoize object so far
    thread,                     \* the threads inside Memoize.__call__
    initial_field,              \* the PlaneWave or GaussianBeam object
    pwe_call                    \* the call of its plane_wave_expansion

idxvars == <<index_order, maximal_multipole_degree, maximal_multipole_order, call>>

ctrvars == <<contour, neff_result>>

kzvars == <<kz_call>>

cplvars == <<block_call>>

matvars == <<matrix_call>>

memovars == <<memo, memo_calls>>

thrvars == <<thread>>

inivars == <<initial_field, pwe_call>>

vars == <<idxvars, ctrvars, kzvars, cplvars, matvars, memovars, thrvars, inivars>>

-----------------------------------------------------------------------------
(* Python values.  An optional integer is a record, so that None and an    *)
(* integer can be compared.                                                *)

None == [isNone |-> TRUE, v |-> 0]

Some(v) == [isNone |-> FALSE, v |-> v]

Min(a, b) == IF a <= b THEN a ELSE b

Max(a, b) == IF a >= b THEN a ELSE b

Abs(a) == IF a >= 0 THEN a ELSE -a

\* outcomes of a call
Returned(n) == [kind |-> "int", val |-> n]

ReturnedNone == [kind |-> "None", val |-> 0]

Raised(what) == [kind |-> what, val |-> 0]

-----------------------------------------------------------------------------
(* Bounds of the model.                                                    *)

\* largest truncation degree passed as l_max (and largest l, |m| passed)
MaxL == 2

\* the polarisations passed as tau: 0 and 1 are valid, anything above is not
MaxTau == 2

\* the waypoint lists have 0..MaxWaypoints entries
MaxWaypoints == 3

\* the real parts of the waypoints are 0..MaxRe grid units
MaxRe == 2

\* the discretisation steps are -MaxStep..MaxStep grid units
MaxStep == 2

\* the real and imaginary parts of k and k_parallel are -MaxK..MaxK
MaxK == 2

\* the coordinates of the particle positions are 0..MaxPos
MaxPos == 1

\* most particles of a collection, and the largest lmax of a matrix call
MaxParticles == 2

MaxLMatrix == 1

\* most calls of the memoized function
MaxCalls == 3

\* the threads that call the memoized function, one call each
MaxThreads == 2

\* most layers of a layer system
MaxLayers == 3

-----------------------------------------------------------------------------
(* smuthi/index_conversion.py                                              *)

\* the 'tlm' branch with the running offset of the truncated degrees slipped
tlm_index_offbyone(tau, l, m, l_max, m_max) ==
    LET tau_blocksize == m_max * (m_max + 2) + (l_max - m_max) * (2 * m_max + 1)
        n0 == tau * tau_blocksize
        n1 == IF l <= m_max
              THEN n0 + (l - 1) * (l - 1 + 2)
              ELSE n0 + m_max * (m_max + 2) + (l - m_max) * (2 * m_max + 1)
    IN  n1 + m + Min(l, m_max)

\* the same with the sign of m slipped
tlm_index_msign(tau, l, m, l_max, m_max) ==
    LET tau_blocksize == m_max * (m_max + 2) + (l_max - m_max) * (2 * m_max + 1)
        n0 == tau * tau_blocksize
        n1 == IF (l - 1) <= m_max
              THEN n0 + (l - 1) * (l - 1 + 2)
              ELSE n0 + m_max * (m_max + 2) + (l - 1 - m_max) * (2 * m_max + 1)
    IN  n1 - m + Min(l, m_max)

\* lines 66-73: the body of the 'tlm' branch, for given l_max and m_max
tlm_index(tau, l, m, l_max, m_max) ==
    LET tau_blocksize == m_max * (m_max + 2) + (l_max - m_max) * (2 * m_max + 1)
        n0 == tau * tau_blocksize
        n1 == IF (l - 1) <= m_max
              THEN n0 + (l - 1) * (l - 1 + 2)
              ELSE n0 + m_max * (m_max + 2) + (l - 1 - m_max) * (2 * m_max + 1)
    IN  n1 + m + Min(l, m_max)

\* lines 54-73: what a call computes from the globals as they are after the
\* keyword arguments were stored.  Arithmetic on None raises TypeError; an
\* index_order other than 'tlm' falls off the end of the function, which
\* returns None.
index_body(tau, l, m, order, degree, morder) ==
    IF order # "tlm" THEN ReturnedNone
    ELSE IF degree.isNone THEN Raised("TypeError")
    ELSE LET l_max == degree.v
             m_max == IF morder.isNone THEN l_max ELSE morder.v
         IN  Returned(tlm_index(tau, l, m, l_max, m_max))

\* the keyword arguments of a call: each of l_max, m_max, index_order is
\* passed or not
NoKw == [has_l_max |-> FALSE, l_max |-> 0,
         has_m_max |-> FALSE, m_max |-> None,
         has_index_order |-> FALSE, index_order |-> ""]

Orders == {"tlm", "lmt"}

KwArgs ==
    { [has_l_max |-> hl, l_max |-> IF hl THEN lm ELSE 0,
       has_m_max |-> hm, m_max |-> IF hm THEN mm ELSE None,
       has_index_order |-> ho, index_order |-> IF ho THEN io ELSE ""] :
         hl \in BOOLEAN, lm \in 1..MaxL,
         hm \in BOOLEAN, mm \in {None} \cup {Some(v) : v \in 0..MaxL},
         ho \in BOOLEAN, io \in Orders }

\* "set global variables" with an omitted keyword falling back to the
\* value the module was imported with
SetGlobals_defaults(kw) ==
    /\ maximal_multipole_degree' =
           IF kw.has_l_max THEN Some(kw.l_max) ELSE None
    /\ maximal_multipole_order' =
           IF kw.has_m_max THEN kw.m_max ELSE None
    /\ index_order' =
           IF kw.has_index_order THEN kw.index_order ELSE "tlm"

\* lines 46-52 and 89-95: "set global variables"
SetGlobals(kw) ==
    /\ maximal_multipole_degree' =
           IF kw.has_l_max THEN Some(kw.l_max) ELSE maximal_multipole_degree
    /\ maximal_multipole_order' =
           IF kw.has_m_max THEN kw.m_max ELSE maximal_multipole_order
    /\ index_order' =
           IF kw.has_index_order THEN kw.index_order ELSE index_order

\* lines 28-73
multi_to_single_index(tau, l, m, kw) ==
    /\ SetGlobals(kw)
    /\ call' = [fn |-> "multi_to_single_index", tau |-> tau, l |-> l, m |-> m,
                kw |-> kw,
                out |-> index_body(tau, l, m, index_order',
                                   maximal_multipole_degree',
                                   maximal_multipole_order')]

\* lines 97-103: the nested call multi_to_single_index(tau=1, l=l_max,
\* m=m_max) passes no keywords, so it computes with the globals just set;
\* adding 1 to a returned None raises TypeError, and so does the nested
\* call's arithmetic when l_max is None.
number_of_indices_body(order, degree, morder) ==
    IF degree.isNone
    THEN Raised("TypeError")
    ELSE LET l_max == degree.v
             m_max == IF morder.isNone THEN l_max ELSE morder.v
             inner == index_body(1, l_max, m_max, order, degree, morder)
         IN  IF inner.kind = "int" THEN Returned(inner.val + 1)
             ELSE IF inner.kind = "None" THEN Raised("TypeError")
             ELSE inner

\* lines 76-103
number_of_indices(kw) ==
    /\ SetGlobals(kw)
    /\ call' = [fn |-> "number_of_indices", tau |-> 0, l |-> 0, m |-> 0,
                kw |-> kw,
                out |-> number_of_indices_body(index_order',
                                               maximal_multipole_degree',
                                               maximal_multipole_order')]

\* lines 19-25: the module as imported; no call has been made
IdxInit ==
    /\ index_order = "tlm"
    /\ maximal_multipole_degree = None
    /\ maximal_multipole_order = None
    /\ call = [fn |-> "import", tau |-> 0, l |-> 0, m |-> 0, kw |-> NoKw,
               out |-> ReturnedNone]

\* the triples (tau, l, m) passed by the calls of the model: the valid ones
\* up to MaxL and, around them, invalid ones (tau above 1, l = 0, l above
\* l_max, |m| above min(l, m_max))
Args == { <<tau, l, m>> : tau \in 0..MaxTau, l \in 0..MaxL, m \in -MaxL..MaxL }

\* the triples passed by the calls that also pass keywords
KwCallArgs == { <<0, 1, 0>>, <<1, MaxL, -1>> }

\* multi_to_single_index(tau, l, m): the configuration is the stored one
CallIndex ==
    \E a \in Args : multi_to_single_index(a[1], a[2], a[3], NoKw)

\* multi_to_single_index(tau, l, m, l_max=.., m_max=.., index_order=..)
CallIndexKw ==
    \E a \in KwCallArgs, kw \in KwArgs \ {NoKw} :
        multi_to_single_index(a[1], a[2], a[3], kw)

\* number_of_indices(l_max=.., m_max=.., index_order=..)
CallCount ==
    \E kw \in KwArgs : number_of_indices(kw)

-----------------------------------------------------------------------------
(* smuthi/coordinates.py: ComplexContour                                   *)
(*                                                                         *)
(* Waypoints are complex numbers with integer parts and steps are integers,*)
(* all in one grid unit; the samples are exact rationals.  The arithmetic  *)
(* is exact: the rounding of the floating point division is not modelled.  *)
(* numpy.linspace is the one of the numpy releases this code ran on, which *)
(* takes int(num) of a float num.                                          *)

RECURSIVE GCD(_, _)
GCD(a, b) == IF b = 0 THEN a ELSE GCD(b, a % b)

Cx(re, im) == [re |-> re, im |-> im]

\* the complex rational (re + i*im) / den, den >= 1, in lowest terms
Rat(re, im, den) ==
    LET g == GCD(GCD(Abs(re), Abs(im)), den)
    IN  [re |-> re \div g, im |-> im \div g, den |-> den \div g]

\* a waypoint as a sample
AsSample(w) == Rat(w.re, w.im, 1)

\* abs(b - a) squared
Dist2(a, b) == (b.re - a.re) * (b.re - a.re) + (b.im - a.im) * (b.im - a.im)

\* floor(sqrt(d2) / s) for s > 0
FloorRatio(d2, s) ==
    CHOOSE n \in 0..d2 : n * n * s * s <= d2 /\ (n + 1) * (n + 1) * s * s > d2

\* the discretisation: a scalar or a list (hasattr(.., "__len__"))
ScalarStep(v) == [isList |-> FALSE, step |-> v, steps |-> <<>>]

StepList(l) == [isList |-> TRUE, step |-> 0, steps |-> l]

\* lines 27-30 with the + 1 forgotten
npoints_nosuccessor(a, b, step) ==
    IF step = 0 THEN Raised("ZeroDivisionError")
    ELSE IF step > 0 THEN Returned(FloorRatio(Dist2(a, b), step))
    ELSE Returned(- FloorRatio(Dist2(a, b), -step))

\* lines 27-30: npoints = abs(w[i+1] - w[i]) / step + 1, as linspace takes
\* it: int(npoints), which truncates towards zero
npoints(a, b, step) ==
    IF step = 0 THEN Raised("ZeroDivisionError")
    ELSE IF step > 0 THEN Returned(FloorRatio(Dist2(a, b), step) + 1)
    ELSE LET f == FloorRatio(Dist2(a, b), -step)
         IN  IF Dist2(a, b) = 0 THEN Returned(1)
             ELSE IF f = 0 THEN Returned(0)
             ELSE Returned(1 - f)

\* lines 31-32: w[i] + linspace(0, 1, num, endpoint=True) * (w[i+1] - w[i]);
\* linspace(0, 1, 1) is [0.]
segment(a, b, num) ==
    [ j \in 1..num |->
        IF num = 1 THEN AsSample(a)
        ELSE Rat(a.re * (num - 1) + (j - 1) * (b.re - a.re),
                 a.im * (num - 1) + (j - 1) * (b.im - a.im),
                 num - 1) ]

\* lines 26-32: one pass of the loop body, for segment i (1-based); the
\* outcome is the error it raises or the sample array it appends
loop_body(w, disc, i) ==
    IF disc.isList /\ i > Len(disc.steps) THEN [err |-> "IndexError", arr |-> <<>>]
    ELSE LET step == IF disc.isList THEN disc.steps[i] ELSE disc.step
             np == npoints(w[i], w[i + 1], step)
         IN  IF np.kind # "int" THEN [err |-> np.kind, arr |-> <<>>]
             ELSE IF np.val < 0 THEN [err |-> "ValueError", arr |-> <<>>]
             ELSE [err |-> "", arr |-> segment(w[i], w[i + 1], np.val)]

\* np.concatenate with the first sample of every later segment dropped
RECURSIVE concatenate_shared(_)
concatenate_shared(segs) ==
    IF Len(segs) = 0 THEN <<>>
    ELSE IF Len(segs) = 1 THEN segs[1]
    ELSE concatenate_shared(SubSeq(segs, 1, Len(segs) - 1)) \o
         (IF Len(segs[Len(segs)]) = 0 THEN <<>> ELSE Tail(segs[Len(segs)]))

\* line 33: np.concatenate(neff_segments), for a non-empty list
RECURSIVE concatenate(_)
concatenate(segs) ==
    IF Len(segs) = 0 THEN <<>>
    ELSE concatenate(SubSeq(segs, 1, Len(segs) - 1)) \o segs[Len(segs)]

\* lines 25-33: the loop stops at the first pass that raises; concatenating
\* an empty list of segments raises ValueError
neff(w, disc) ==
    LET nseg == IF Len(w) >= 1 THEN Len(w) - 1 ELSE 0
        pass == [ i \in 1..nseg |-> loop_body(w, disc, i) ]
        bad == { i \in 1..nseg : pass[i].err # "" }
    IN  IF bad # {}
        THEN [kind |-> pass[CHOOSE i \in bad : \A j \in bad : i <= j].err,
              samples |-> <<>>, counts |-> <<>>]
        ELSE IF nseg = 0
        THEN [kind |-> "ValueError", samples |-> <<>>, counts |-> <<>>]
        ELSE [kind |-> "array",
              samples |-> concatenate([ i \in 1..nseg |-> pass[i].arr ]),
              counts |-> [ i \in 1..nseg |-> Len(pass[i].arr) ]]

\* the waypoints of the model: on the real axis, or the one dipped below it
Waypoints == { Cx(re, 0) : re \in 0..MaxRe } \cup { Cx(1, -1) }

RECURSIVE SeqsUpTo(_, _)
SeqsUpTo(S, n) ==
    IF n = 0 THEN { <<>> }
    ELSE LET shorter == SeqsUpTo(S, n - 1)
         IN  shorter \cup { Append(q, x) : q \in { r \in shorter : Len(r) = n - 1 }, x \in S }

WaypointLists == SeqsUpTo(Waypoints, MaxWaypoints)

Discretizations ==
    { ScalarStep(v) : v \in -MaxStep..MaxStep } \cup
    { StepList(l) : l \in SeqsUpTo(1..MaxStep, MaxWaypoints - 1) }

\* no contour has been constructed
ContourInit ==
    /\ contour = [constructed |-> FALSE, neff_waypoints |-> <<>>,
                  neff_discretization |-> ScalarStep(0)]
    /\ neff_result = [kind |-> "none", samples |-> <<>>, counts |-> <<>>]

\* lines 16-18: __init__ stores its two arguments; it runs once per object
ContourConstruct ==
    /\ ~contour.constructed
    /\ \E w \in WaypointLists, d \in Discretizations :
        /\ contour' = [constructed |-> TRUE, neff_waypoints |-> w,
                       neff_discretization |-> d]
        /\ neff_result' = [kind |-> "none", samples |-> <<>>, counts |-> <<>>]

\* lines 20-33
ContourNeff ==
    /\ contour.constructed
    /\ neff_result' = neff(contour.neff_waypoints, contour.neff_discretization)
    /\ UNCHANGED contour

-----------------------------------------------------------------------------
(* smuthi/coordinates.py: k_z                                              *)
(*                                                                         *)
(* k and k_parallel are complex numbers with integer parts.  A square root *)
(* is kept exactly, as the number it is a root of together with the signs  *)
(* of its real and imaginary part, which name one root of the two.         *)

Sign(x) == IF x > 0 THEN 1 ELSE IF x < 0 THEN -1 ELSE 0

CxSquare(a) == Cx(a.re * a.re - a.im * a.im, 2 * a.re * a.im)

CxMinus(a, b) == Cx(a.re - b.re, a.im - b.im)

\* np.sqrt of a complex number: the principal root, real part >= 0; on the
\* negative real axis (imaginary part +0.0, which the "+ 0j" of line 61
\* makes of any zero) it is the root on the positive imaginary axis
np_sqrt(z) ==
    IF z.im # 0 THEN [of |-> z, re_sign |-> 1, im_sign |-> Sign(z.im)]
    ELSE IF z.re >= 0 THEN [of |-> z, re_sign |-> Sign(z.re), im_sign |-> 0]
    ELSE [of |-> z, re_sign |-> 0, im_sign |-> 1]

Negated(w) == [of |-> w.of, re_sign |-> - w.re_sign, im_sign |-> - w.im_sign]

\* line 62 with the comparison turned round
branch_cut_flipped(kz) ==
    IF kz.im_sign <= 0 THEN kz ELSE Negated(kz)

\* line 62: kz = (kz.imag >= 0) * kz + (kz.imag < 0) * (-kz)
branch_cut(kz) ==
    IF kz.im_sign >= 0 THEN kz ELSE Negated(kz)

\* lines 61-63, for k_parallel and k given
k_z(k_parallel, k) ==
    branch_cut(np_sqrt(CxMinus(CxSquare(k), CxSquare(k_parallel))))

Wavenumbers == { Cx(re, im) : re \in -MaxK..MaxK, im \in -MaxK..MaxK }

KzInit == kz_call = [called |-> FALSE, k_parallel |-> Cx(0, 0), k |-> Cx(0, 0),
                     kz |-> np_sqrt(Cx(0, 0))]

\* lines 36-63: k_z(k_parallel=.., k=..)
CallKz ==
    /\ ~kz_call.called
    /\ \E kp \in Wavenumbers, k \in Wavenumbers :
          kz_call' = [called |-> TRUE, k_parallel |-> kp, k |-> k,
                      kz |-> k_z(kp, k)]

-----------------------------------------------------------------------------
(* smuthi/particle_coupling.py: layer_mediated_coupling_block              *)
(*                                                                         *)
(* Positions have integer coordinates.  The contour integral of entry      *)
(* (n1, n2) is kept as a symbol; the factors the block multiplies it with  *)
(* are computed: the order of the Bessel function, the power of i and the  *)
(* multiple of phi in the exponent.  rho is kept by its square, phi by the *)
(* two arguments of arctan2.                                               *)

\* idx.multi2single(tau, l, m, lmax, mmax, index_arrangement), line 86: the
\* 'tlm' index within one particle's block
multi2single(tau, l, m, lmax, mmax) == tlm_index(tau, l, m, lmax, mmax)

\* idx.block_size(lmax, mmax, index_arrangement), line 39: the number of
\* indices of one particle
block_size(lmax, mmax) == multi2single(1, lmax, mmax, lmax, mmax) + 1

\* np.linalg.norm squared
RECURSIVE NormSq(_)
NormSq(v) == IF Len(v) = 0 THEN 0 ELSE v[1] * v[1] + NormSq(Tail(v))

\* lines 83-87: the triples in the order the loops visit them
RECURSIVE ForL(_, _, _, _)
ForL(tau, m, l, lmax) ==
    IF l > lmax THEN <<>> ELSE << <<tau, l, m>> >> \o ForL(tau, m, l + 1, lmax)

\* lines 83-85 with l running from 1 whatever m is
RECURSIVE ForM_all_l(_, _, _, _)
ForM_all_l(tau, m, lmax, mmax) ==
    IF m > mmax THEN <<>>
    ELSE ForL(tau, m, 1, lmax) \o ForM_all_l(tau, m + 1, lmax, mmax)

RECURSIVE ForM(_, _, _, _)
ForM(tau, m, lmax, mmax) ==
    IF m > mmax THEN <<>>
    ELSE ForL(tau, m, Max(1, Abs(m)), lmax) \o ForM(tau, m + 1, lmax, mmax)

LoopVisits(lmax, mmax) == ForM(0, -mmax, lmax, mmax) \o ForM(1, -mmax, lmax, mmax)

\* lines 78 and 83-87: m_vec starts as zeros; visit by visit m_vec[n] = m
m_vec_of(lmax, mmax) ==
    LET visits == LoopVisits(lmax, mmax)
        nOf(i) == multi2single(visits[i][1], visits[i][2], visits[i][3], lmax, mmax)
    IN  [ n \in 0..(block_size(lmax, mmax) - 1) |->
            LET writes == { i \in 1..Len(visits) : nOf(i) = n }
            IN  IF writes = {} THEN 0
                ELSE visits[CHOOSE i \in writes : \A j \in writes : j <= i][3] ]

\* lines 41-46: rs2s1 = rs1 - rs2; rho = norm(rs2s1[0:1]);
\* phi = arctan2(rs2s1[1], rs2s1[0])
relative_position(rs1, rs2) ==
    LET rs2s1 == [ c \in 1..3 |-> rs1[c] - rs2[c] ]
    IN  [rs2s1 |-> rs2s1,
         rhos2s1_sq |-> NormSq(SubSeq(rs2s1, 1, 1)),
         phis2s1 |-> [arctan2_y |-> rs2s1[2], arctan2_x |-> rs2s1[1]]]

\* lines 105-115: entry [n1, n2] of wr.  bessel_full is built column by
\* column but its order is symmetric in n1 and n2;
\* m2_minus_m1 = m_vec[np.newaxis].T - m_vec has m_vec[n1] - m_vec[n2] at
\* [n1, n2]
wr_entry(m_vec, n1, n2) ==
    LET m2_minus_m1 == m_vec[n1] - m_vec[n2]
    IN  [factor |-> 4,
         bessel_order |-> Abs(m_vec[n1] - m_vec[n2]),
         i_power |-> Abs(m2_minus_m1),
         phi_multiple |-> m2_minus_m1,
         integral |-> <<n1, n2>>]

\* scipy.special.jv(dm, kpar * rho) along the contour: at rho = 0 it is 1
\* for order 0 and 0 for every higher order; elsewhere it is some finite
\* number, kept as a symbol
jv(dm, rho_sq) ==
    IF rho_sq # 0 THEN "symbol" ELSE IF dm = 0 THEN "one" ELSE "zero"

\* lines 106-110 with the orders added instead of subtracted
bessel_full_sum(m_vec, n1, n2, rho_sq) ==
    jv(Abs(m_vec[n1] + m_vec[n2]), rho_sq)

\* lines 106-110: bessel_list[abs(m_vec[n1] - m_vec[n2])]
bessel_full(m_vec, n1, n2, rho_sq) ==
    jv(Abs(m_vec[n1] - m_vec[n2]), rho_sq)

\* lines 111-115: integrand = bessel_full * jacobi_vector * BeLBe, its
\* trapezoidal integral, and wr = 4 * i^|..| * exp(..) * integral, as far as
\* being zero or non-finite goes.  finite says that jacobi_vector
\* (kpar / (kzis2 * kis2)) and BeLBe are finite at every sample; a
\* non-finite factor makes the product inf or nan (0 * inf = nan), and
\* that the integral and the entry.
wr_value(m_vec, n1, n2, rho_sq, finite) ==
    IF ~finite THEN "nonfinite"
    ELSE IF bessel_full(m_vec, n1, n2, rho_sq) = "zero" THEN "zero"
    ELSE "symbol"

\* lines 13-124.  The function has no check of what it computed: it ends
\* with "return wr".
layer_mediated_coupling_block(rs1, rs2, lmax, mmax_spec, finite) ==
    LET mmax == IF mmax_spec.isNone THEN lmax ELSE mmax_spec.v
        blocksize == block_size(lmax, mmax)
        m_vec == m_vec_of(lmax, mmax)
        rel == relative_position(rs1, rs2)
    IN  [called |-> TRUE,
         receiving_particle_position |-> rs1,
         emitting_particle_position |-> rs2,
         lmax |-> lmax, mmax |-> mmax, blocksize |-> blocksize,
         integrand_finite |-> finite,
         rel |-> rel,
         m_vec |-> m_vec,
         visits |-> LoopVisits(lmax, mmax),
         bessel_list_orders |-> 0..(2 * lmax),
         outcome |-> "returned",
         wr |-> [ n1 \in 0..(blocksize - 1) |->
                    [ n2 \in 0..(blocksize - 1) |-> wr_entry(m_vec, n1, n2) ] ],
         value |-> [ n1 \in 0..(blocksize - 1) |->
                    [ n2 \in 0..(blocksize - 1) |->
                        wr_value(m_vec, n1, n2, rel.rhos2s1_sq, finite) ] ]]

Positions == { <<x, y, z>> : x \in 0..MaxPos, y \in 0..MaxPos, z \in 0..MaxPos }

\* the emitter is taken at height 0; the receiver is anywhere
EmitterPositions == { rs2 \in Positions : rs2[3] = 0 }

\* index_specs: lmax and mmax (None or 0..lmax)
IndexSpecs ==
    { <<lmax, mmax>> \in (1..MaxL) \X ({None} \cup { Some(v) : v \in 0..MaxL }) :
        mmax.isNone \/ mmax.v <= lmax }

CplInit ==
    block_call = [called |-> FALSE]

CallBlock ==
    /\ ~block_call.called
    /\ \E rs1 \in Positions, rs2 \in EmitterPositions, spec \in IndexSpecs,
          finite \in BOOLEAN :
          block_call' = layer_mediated_coupling_block(rs1, rs2, spec[1], spec[2],
                                                      finite)

-----------------------------------------------------------------------------
(* particle_coupling.layer_mediated_coupling_matrix.  A string is the      *)
(* sequence of its characters.  A cell of the matrix is either the 0 that  *)
(* np.zeros put there or what a block holds at one of its entries.         *)

\* everything that determines the number a block holds at [n1, n2]
block_cell(blk, n1, n2) ==
    [zero |-> FALSE,
     receiver |-> blk.receiving_particle_position,
     emitter |-> blk.emitting_particle_position,
     n1 |-> n1, n2 |-> n2,
     entry |-> blk.wr[n1][n2], value |-> blk.value[n1][n2]]

\* line 148: an entry of np.zeros
zero_cell ==
    [zero |-> TRUE, receiver |-> <<>>, emitter |-> <<>>, n1 |-> 0, n2 |-> 0,
     entry |-> <<>>, value |-> "zero"]

\* line 153 with the row offset of the previous particle
s1_start_idx_previous(s1, blocksize) == Max(s1 - 1, 0) * blocksize

\* line 153
s1_start_idx(s1, blocksize) == s1 * blocksize

\* line 156
s2_start_idx(s2, blocksize) == s2 * blocksize

\* lines 152, 155, 157-158: rs1 is the position of particle s1 and goes in as
\* the receiving position, rs2 that of particle s2 as the emitting position
wrblock(particles, s1, s2, lmax, mmax_spec, finite) ==
    layer_mediated_coupling_block(particles[s1 + 1], particles[s2 + 1],
                                  lmax, mmax_spec, finite)

\* line 160: wr[r0:(r0 + blocksize), c0:(c0 + blocksize)] = blk
slice_assign(wr, r0, c0, blocksize, blk) ==
    [ r \in DOMAIN wr |->
        [ c \in DOMAIN wr[r] |->
            IF /\ r0 <= r /\ r < r0 + blocksize
               /\ c0 <= c /\ c < c0 + blocksize
            THEN block_cell(blk, r - r0, c - c0)
            ELSE wr[r][c] ] ]

\* lines 151-160: the k-th pass through the body of the two loops (k = 1 is
\* the first one) has s1 = (k - 1) div P and s2 = (k - 1) mod P
pass_s1(k, particle_number) == (k - 1) \div particle_number

pass_s2(k, particle_number) == (k - 1) % particle_number

\* lines 151-160: the matrix after the first k passes
RECURSIVE loop_passes(_, _, _, _, _, _, _)
loop_passes(wr, k, particles, blocksize, lmax, mmax_spec, finite) ==
    IF k = 0 THEN wr
    ELSE LET P == Len(particles)
             s1 == pass_s1(k, P)
             s2 == pass_s2(k, P)
         IN  slice_assign(loop_passes(wr, k - 1, particles, blocksize, lmax,
                                      mmax_spec, finite),
                          s1_start_idx(s1, blocksize),
                          s2_start_idx(s2, blocksize), blocksize,
                          wrblock(particles, s1, s2, lmax, mmax_spec, finite))

\* lines 157-158 and 160: what the k-th pass evaluates and where it writes
pass_record(k, particle_number, blocksize) ==
    LET s1 == pass_s1(k, particle_number)
        s2 == pass_s2(k, particle_number)
    IN  [s1 |-> s1, s2 |-> s2,
         row_start |-> s1_start_idx(s1, blocksize),
         col_start |-> s2_start_idx(s2, blocksize),
         size |-> blocksize]

\* line 150: index_specs['index arrangement'][0] == 's'.  Indexing the
\* empty string raises IndexError
arrangement_test(index_arrangement) ==
    IF Len(index_arrangement) = 0 THEN "IndexError"
    ELSE IF index_arrangement[1] = "s" THEN "s" ELSE "other"

\* lines 127-164
layer_mediated_coupling_matrix(particles, lmax, mmax_spec, index_arrangement, finite) ==
    LET mmax == IF mmax_spec.isNone THEN lmax ELSE mmax_spec.v
        blocksize == block_size(lmax, mmax)
        particle_number == Len(particles)
        system_size == blocksize * particle_number
        zeros == [ r \in 0..(system_size - 1) |->
                     [ c \in 0..(system_size - 1) |-> zero_cell ] ]
        test == arrangement_test(index_arrangement)
        passes == IF test = "s" THEN particle_number * particle_number ELSE 0
    IN  [called |-> TRUE,
         particles |-> particles, lmax |-> lmax, mmax_spec |-> mmax_spec,
         index_arrangement |-> index_arrangement,
         integrand_finite |-> finite,
         blocksize |-> blocksize, system_size |-> system_size,
         passes |-> [ k \in 1..passes |->
                        pass_record(k, particle_number, blocksize) ],
         outcome |-> IF test = "s" THEN "returned"
                     ELSE IF test = "other" THEN "ValueError"
                     ELSE "IndexError",
         wr |-> IF test = "s"
                THEN loop_passes(zeros, passes, particles, blocksize, lmax,
                                 mmax_spec, finite)
                ELSE <<>>]

ParticlePositions == { <<0, 0, 0>>, <<MaxPos, 0, 0>>, <<0, MaxPos, MaxPos>> }

ParticleCollections == SeqsUpTo(ParticlePositions, MaxParticles)

MatrixIndexSpecs == { spec \in IndexSpecs : spec[1] <= MaxLMatrix }

IndexArrangements ==
    { <<"s", "t", "l", "m">>, <<"t", "l", "m", "s">>, <<>> }

MatInit ==
    matrix_call = [called |-> FALSE]

CallMatrix ==
    /\ ~matrix_call.called
    /\ \E particles \in ParticleCollections, spec \in MatrixIndexSpecs,
          index_arrangement \in IndexArrangements, finite \in BOOLEAN :
          matrix_call' = layer_mediated_coupling_matrix(
                             particles, spec[1], spec[2], index_arrangement,
                             finite)

-----------------------------------------------------------------------------
(* smuthi/memoizing.py: Memoize.                                           *)
(*                                                                         *)
(* The wrapped function is f(x, y).  It need not be pure: what an          *)
(* invocation returns carries the number of the call that made it, so that *)
(* the results of two invocations differ, and an invocation may raise.     *)
(* pickle.dumps(obj, 1) is the sequence of the opcodes of protocol 1 with  *)
(* their operands, without the BINPUT opcodes of the pickler's own memo.   *)
(* kwds holds the keywords in the order the call wrote them (a dict keeps  *)
(* insertion order).                                                       *)

Op(op) == [op |-> op, int |-> 0, str |-> ""]

\* pickle: BININT1 n
BININT1(n) == [op |-> "K", int |-> n, str |-> ""]

\* pickle: BINUNICODE s
BINUNICODE(str) == [op |-> "X", int |-> 0, str |-> str]

\* pickle.dumps(args, 1) for a tuple of small integers: ")." when empty,
\* else MARK, the items, TUPLE, STOP
pickle_dumps_tuple(args) ==
    IF Len(args) = 0 THEN << Op(")"), Op(".") >>
    ELSE << Op("(") >> \o [ i \in 1..Len(args) |-> BININT1(args[i]) ]
                       \o << Op("t"), Op(".") >>

\* the items of a dict, key then value, in iteration order
RECURSIVE dict_items(_)
dict_items(kwds) ==
    IF Len(kwds) = 0 THEN <<>>
    ELSE << BINUNICODE(kwds[1][1]), BININT1(kwds[1][2]) >> \o dict_items(Tail(kwds))

\* a dict without the order of its items: the keywords sorted by name
RECURSIVE sorted_by_name(_)
sorted_by_name(kwds) ==
    IF Len(kwds) = 0 THEN <<>>
    ELSE LET first == CHOOSE i \in 1..Len(kwds) :
                         \A j \in 1..Len(kwds) :
                            \/ kwds[i][1] = kwds[j][1]
                            \/ (kwds[i][1] = "x" /\ kwds[j][1] = "y")
             rest == [ j \in 1..(Len(kwds) - 1) |->
                         IF j < first THEN kwds[j] ELSE kwds[j + 1] ]
         IN  << kwds[first] >> \o sorted_by_name(rest)

\* pickle.dumps(kwds, 1) written from the keywords sorted by name
pickle_dumps_dict_sorted(kwds) ==
    LET items == sorted_by_name(kwds)
    IN  IF Len(items) = 0 THEN << Op("}"), Op(".") >>
        ELSE IF Len(items) = 1
        THEN << Op("}") >> \o dict_items(items) \o << Op("s"), Op(".") >>
        ELSE << Op("}"), Op("(") >> \o dict_items(items) \o << Op("u"), Op(".") >>

\* pickle.dumps(kwds, 1) for a dict from names to small integers:
\* EMPTY_DICT, then nothing, or one item and SETITEM, or MARK, the items
\* and SETITEMS, then STOP
pickle_dumps_dict(kwds) ==
    IF Len(kwds) = 0 THEN << Op("}"), Op(".") >>
    ELSE IF Len(kwds) = 1
    THEN << Op("}") >> \o dict_items(kwds) \o << Op("s"), Op(".") >>
    ELSE << Op("}"), Op("(") >> \o dict_items(kwds) \o << Op("u"), Op(".") >>

\* line 9: str = pickle.dumps(args, 1) + pickle.dumps(kwds, 1)
serialized(args, kwds) == pickle_dumps_tuple(args) \o pickle_dumps_dict(kwds)

\* the value a call binds to a parameter of f(x, y): the positional one at
\* its place, else the keyword of its name
bound_value(args, kwds, place, name) ==
    IF place <= Len(args) THEN args[place]
    ELSE kwds[CHOOSE i \in 1..Len(kwds) : kwds[i][1] = name][2]

\* line 12: self.fn(*args, **kwds), the invocation made by call number
\* serial, when it returns
fn(args, kwds, serial) ==
    [kind |-> "value",
     x |-> bound_value(args, kwds, 1, "x"),
     y |-> bound_value(args, kwds, 2, "y"),
     serial |-> serial]

\* what a call ends with when the invocation raises
fn_raised == [kind |-> "raised", x |-> 0, y |-> 0, serial |-> 0]

\* line 10 with the test always true
not_in_memo_always(str) == TRUE

\* line 10: not str in self.memo
not_in_memo(str) == str \notin DOMAIN memo

\* line 12 with the entry stored although the invocation raised
memo_when_fn_raises_stored(str) ==
    [ k \in DOMAIN memo \cup {str} |-> IF k = str THEN fn_raised ELSE memo[k] ]

\* line 12: the exception of self.fn(...) leaves the statement before the
\* assignment to self.memo[str]
memo_when_fn_raises(str) == memo

\* lines 8-16; raises says whether the invocation, if one is made, raises
Memoize_call(args, kwds, raises) ==
    LET str == serialized(args, kwds)
        serial == Len(memo_calls) + 1
        this == [args |-> args, kwds |-> kwds, str |-> str]
    IN  IF not_in_memo(str)
        THEN IF raises
             THEN /\ memo' = memo_when_fn_raises(str)
                  /\ memo_calls' = Append(memo_calls,
                         [call |-> this, invoked |-> TRUE, out |-> fn_raised])
             ELSE /\ memo' = [ k \in DOMAIN memo \cup {str} |->
                                 IF k = str THEN fn(args, kwds, serial)
                                 ELSE memo[k] ]
                  /\ memo_calls' = Append(memo_calls,
                         [call |-> this, invoked |-> TRUE, out |-> memo'[str]])
        ELSE /\ memo' = memo
             /\ memo_calls' = Append(memo_calls,
                    [call |-> this, invoked |-> FALSE, out |-> memo[str]])

\* lines 5-7: self.memo = {}
MemoInit ==
    /\ memo = [ k \in {} |-> fn_raised ]
    /\ memo_calls = <<>>

\* the values passed for x and for y
XValues == {0, 1}

YValues == {0}

\* the ways of calling f with x = a and y = b: f(a, b), f(a, y=b),
\* f(x=a, y=b), f(y=b, x=a)
CallForms(a, b) ==
    { [args |-> <<a, b>>, kwds |-> <<>>],
      [args |-> <<a>>, kwds |-> << <<"y", b>> >>],
      [args |-> <<>>, kwds |-> << <<"x", a>>, <<"y", b>> >>],
      [args |-> <<>>, kwds |-> << <<"y", b>>, <<"x", a>> >>] }

MemoCalls == UNION { CallForms(a, b) : a \in XValues, b \in YValues }

CallMemoized ==
    /\ Len(memo_calls) < MaxCalls
    /\ \E c \in MemoCalls, raises \in BOOLEAN :
          Memoize_call(c.args, c.kwds, raises)

-----------------------------------------------------------------------------
(* Memoize.__call__ run by several threads on one object.  Each thread     *)
(* makes one call.  The interpreter switches threads between bytecodes, so *)
(* the membership test, the call of self.fn, the store into self.memo and  *)
(* the final read are steps of their own; each of them is atomic.          *)

Threads == 1..MaxThreads

idle_thread ==
    [pc |-> "idle", call |-> [args |-> <<>>, kwds |-> <<>>, str |-> <<>>],
     invoked |-> FALSE, value |-> fn_raised, out |-> fn_raised]

ThreadInit ==
    thread = [ t \in Threads |-> idle_thread ]

\* lines 8-10: the thread enters with its arguments, serializes them and
\* tests "not str in self.memo"
ThreadTest(t) ==
    /\ thread[t].pc = "idle"
    /\ \E c \in MemoCalls :
          LET str == serialized(c.args, c.kwds)
          IN  thread' = [thread EXCEPT ![t] =
                  [@ EXCEPT !.pc = IF not_in_memo(str) THEN "miss" ELSE "hit",
                            !.call = [args |-> c.args, kwds |-> c.kwds,
                                      str |-> str]]]
    /\ UNCHANGED memo

\* line 12, right-hand side: self.fn(*args, **kwds); the invocation of
\* thread t has the serial t
ThreadInvoke(t) ==
    /\ thread[t].pc = "miss"
    /\ thread' = [thread EXCEPT ![t] =
           [@ EXCEPT !.pc = "store", !.invoked = TRUE,
                     !.value = fn(thread[t].call.args,
                                   thread[t].call.kwds, t)]]
    /\ UNCHANGED memo

\* line 12, assignment: self.memo[str] = <the value>
ThreadStore(t) ==
    /\ thread[t].pc = "store"
    /\ memo' = [ k \in DOMAIN memo \cup {thread[t].call.str} |->
                   IF k = thread[t].call.str THEN thread[t].value ELSE memo[k] ]
    /\ thread' = [thread EXCEPT ![t] = [@ EXCEPT !.pc = "hit"]]

\* line 16: return self.memo[str]
ThreadReturn(t) ==
    /\ thread[t].pc = "hit"
    /\ thread' = [thread EXCEPT ![t] =
           [@ EXCEPT !.pc = "returned", !.out = memo[thread[t].call.str]]]
    /\ UNCHANGED memo

-----------------------------------------------------------------------------
(* smuthi/initial_field.py: PlaneWave and GaussianBeam.                    *)
(*                                                                         *)
(* The polar angle is a multiple of pi/4.  The expansions are symbolic: the*)
(* excitation is named by its layer and kind, the answer of                *)
(* layer_system.response by the layers it was asked for, and a sum by its  *)
(* two terms.                                                              *)

\* the polar angles of the model, in units of pi/4: 0 .. pi
PolarAngles == 0..4

\* the sign of np.cos(k * pi / 4); np.cos(np.pi / 2) is 6.1e-17, above 0
np_cos_sign(k) == IF k <= 2 THEN 1 ELSE -1

\* lines 46-56: InitialPropagatingWave.__init__ (polarization is 0 or 1)
InitialPropagatingWave(class, polar_angle, polarization) ==
    [constructed |-> TRUE, class |-> class, polar_angle |-> polar_angle,
     polarization |-> polarization]

\* lines 111-116 and 219-224 with the excitation always in layer 0
excitation_bottom(polar_angle, number_of_layers) ==
    IF np_cos_sign(polar_angle) > 0
    THEN [layer |-> 0, kind |-> "upgoing"]
    ELSE [layer |-> 0, kind |-> "downgoing"]

\* lines 111-116 and 219-224: the excitation layer and the kind
excitation(polar_angle, number_of_layers) ==
    IF np_cos_sign(polar_angle) > 0
    THEN [layer |-> 0, kind |-> "upgoing"]
    ELSE [layer |-> number_of_layers - 1, kind |-> "downgoing"]

\* lines 148 and 243: layer_system.response(pwe_exc, from_layer, to_layer),
\* the upgoing and the downgoing expansion it returns
response(from_layer, to_layer, kind) ==
    [up |-> [from_layer |-> from_layer, to_layer |-> to_layer,
             excited |-> kind, part |-> "up", plus_excitation |-> FALSE],
     down |-> [from_layer |-> from_layer, to_layer |-> to_layer,
               excited |-> kind, part |-> "down", plus_excitation |-> FALSE]]

\* lines 151, 153, 246, 248: pwe + pwe_exc
plus_pwe_exc(pwe) == [pwe EXCEPT !.plus_excitation = TRUE]

\* lines 104-155
GaussianBeam_plane_wave_expansion(self, number_of_layers, i) ==
    LET exc == excitation(self.polar_angle, number_of_layers)
        iG == exc.layer
        kind == exc.kind
        resp == response(iG, i, kind)
    IN  [called |-> TRUE, number_of_layers |-> number_of_layers, i |-> i,
         excitation_layer |-> iG, kind |-> kind,
         pwe_up |-> IF iG = i /\ kind = "upgoing"
                    THEN plus_pwe_exc(resp.up) ELSE resp.up,
         pwe_down |-> IF iG = i /\ kind = "downgoing"
                      THEN plus_pwe_exc(resp.down) ELSE resp.down]

\* lines 206-250
PlaneWave_plane_wave_expansion(self, number_of_layers, i) ==
    LET exc == excitation(self.polar_angle, number_of_layers)
        iP == exc.layer
        kind == exc.kind
        resp == response(iP, i, kind)
    IN  [called |-> TRUE, number_of_layers |-> number_of_layers, i |-> i,
         excitation_layer |-> iP, kind |-> kind,
         pwe_up |-> IF iP = i /\ kind = "upgoing"
                    THEN plus_pwe_exc(resp.up) ELSE resp.up,
         pwe_down |-> IF iP = i /\ kind = "downgoing"
                      THEN plus_pwe_exc(resp.down) ELSE resp.down]

InitialFieldInit ==
    /\ initial_field = [constructed |-> FALSE]
    /\ pwe_call = [called |-> FALSE]

\* PlaneWave(...) or GaussianBeam(...)
InitialFieldConstruct ==
    /\ ~initial_field.constructed
    /\ \E class \in {"PlaneWave", "GaussianBeam"}, polar_angle \in PolarAngles,
          polarization \in 0..1 :
          initial_field' = InitialPropagatingWave(class, polar_angle, polarization)
    /\ UNCHANGED pwe_call

\* plane_wave_expansion(layer_system, i) for a layer i of the system
CallPlaneWaveExpansion ==
    /\ initial_field.constructed /\ ~pwe_call.called
    /\ \E number_of_layers \in 1..MaxLayers :
          \E i \in 0..(number_of_layers - 1) :
             pwe_call' =
                 IF initial_field.class = "PlaneWave"
                 THEN PlaneWave_plane_wave_expansion(initial_field,
                                                     number_of_layers, i)
                 ELSE GaussianBeam_plane_wave_expansion(initial_field,
                                                        number_of_layers, i)
    /\ UNCHANGED initial_field

-----------------------------------------------------------------------------
(* The index module on its own.                                            *)

Init == IdxInit /\ ContourInit /\ KzInit /\ CplInit /\ MatInit /\ MemoInit /\ ThreadInit
        /\ InitialFieldInit

Next ==
    \/ CallIndex /\ UNCHANGED <<ctrvars, kzvars, cplvars, matvars, memovars, thrvars, inivars>>
    \/ CallIndexKw /\ UNCHANGED <<ctrvars, kzvars, cplvars, matvars, memovars, thrvars, inivars>>
    \/ CallCount /\ UNCHANGED <<ctrvars, kzvars, cplvars, matvars, memovars, thrvars, inivars>>

Spec == Init /\ [][Next]_vars

\* the contour on its own
NextContour ==
    \/ ContourConstruct /\ UNCHANGED <<idxvars, kzvars, cplvars, matvars, memovars, thrvars, inivars>>
    \/ ContourNeff /\ UNCHANGED <<idxvars, kzvars, cplvars, matvars, memovars, thrvars, inivars>>

SpecContour == Init /\ [][NextContour]_vars

\* k_z on its own
NextKz == CallKz /\ UNCHANGED <<idxvars, ctrvars, cplvars, matvars, memovars, thrvars, inivars>>

SpecKz == Init /\ [][NextKz]_vars

\* the coupling block on its own
NextBlock == CallBlock /\ UNCHANGED <<idxvars, ctrvars, kzvars, matvars, memovars, thrvars, inivars>>

SpecBlock == Init /\ [][NextBlock]_vars

\* the matrix builder
NextMatrix ==
    CallMatrix /\ UNCHANGED <<idxvars, ctrvars, kzvars, cplvars, memovars, thrvars, inivars>>

SpecMatrix == Init /\ [][NextMatrix]_vars

\* the Memoize object
NextMemo ==
    CallMemoized /\ UNCHANGED <<idxvars, ctrvars, kzvars, cplvars, matvars, thrvars, inivars>>

SpecMemo == Init /\ [][NextMemo]_vars

\* the Memoize object called from several threads
OutsideThreads ==
    <<idxvars, ctrvars, kzvars, cplvars, matvars, memo_calls, inivars>>

NextThreads ==
    \/ \E t \in Threads : ThreadTest(t) /\ UNCHANGED OutsideThreads
    \/ \E t \in Threads : ThreadInvoke(t) /\ UNCHANGED OutsideThreads
    \/ \E t \in Threads : ThreadStore(t) /\ UNCHANGED OutsideThreads
    \/ \E t \in Threads : ThreadReturn(t) /\ UNCHANGED OutsideThreads

SpecThreads == Init /\ [][NextThreads]_vars

\* the initial field
OutsideInitialField ==
    <<idxvars, ctrvars, kzvars, cplvars, matvars, memovars, thrvars>>

NextInitialField ==
    \/ InitialFieldConstruct /\ UNCHANGED OutsideInitialField
    \/ CallPlaneWaveExpansion /\ UNCHANGED OutsideInitialField

SpecInitialField == Init /\ [][NextInitialField]_vars

-----------------------------------------------------------------------------
(* Claims about the index map.                                             *)

\* the configuration a call without keywords computes with
HasConfig == index_order = "tlm" /\ ~maximal_multipole_degree.isNone

CfgL == maximal_multipole_degree.v

CfgM == IF maximal_multipole_order.isNone THEN CfgL ELSE maximal_multipole_order.v

\* l_max >= 1 and 0 <= m_max <= l_max
ValidConfig == HasConfig /\ CfgL >= 1 /\ 0 <= CfgM /\ CfgM <= CfgL

\* tau in {0,1}, 1 <= l <= l_max, |m| <= min(l, m_max)
ValidTriples(L, M) ==
    { <<tau, l, m>> : tau \in 0..1, l \in 1..L, m \in -M..M } \cap
    { t \in (0..1) \X (1..L) \X (-M..M) : Abs(t[3]) <= Min(t[2], M) }

\* the index the stored configuration gives to a triple
IndexOf(t) ==
    index_body(t[1], t[2], t[3], index_order, maximal_multipole_degree,
               maximal_multipole_order).val

\* the count the stored configuration gives
CountNow ==
    number_of_indices_body(index_order, maximal_multipole_degree,
                           maximal_multipole_order).val

CalledTriple == <<call.tau, call.l, call.m>>

IndexCallDone == call.fn = "multi_to_single_index"

CountCallDone == call.fn = "number_of_indices"

Lex(s, t) ==
    \/ s[1] < t[1]
    \/ s[1] = t[1] /\ s[2] < t[2]
    \/ s[1] = t[1] /\ s[2] = t[2] /\ s[3] < t[3]

\* C1: under a valid configuration (l_max >= 1, 0 <= m_max <= l_max, with
\* m_max = None standing for l_max) multi_to_single_index is one-to-one from
\* the valid triples onto 0..N-1, N = number_of_indices: a call on a valid
\* triple returns an index in 0..N-1 that no other valid triple has, every
\* index of 0..N-1 is the index of a valid triple, and a call of
\* number_of_indices returns the number of valid triples.
C1_IndexBijection ==
    ValidConfig =>
        LET V == ValidTriples(CfgL, CfgM)
            N == CountNow
        IN  /\ (IndexCallDone /\ CalledTriple \in V) =>
                  /\ call.out.kind = "int"
                  /\ call.out.val \in 0..(N - 1)
                  /\ \A t \in V : IndexOf(t) = call.out.val => t = CalledTriple
            /\ \A n \in 0..(N - 1) : \E t \in V : IndexOf(t) = n
            /\ \A t \in V : IndexOf(t) \in 0..(N - 1)
            /\ N = Cardinality(V)
            /\ CountCallDone => call.out = Returned(Cardinality(V))

\* a call on a valid triple of a degree whose block is truncated
\* (l > m_max + 1) has returned
C1_Witness ==
    /\ ValidConfig /\ IndexCallDone
    /\ CfgM < CfgL
    /\ CalledTriple \in ValidTriples(CfgL, CfgM)
    /\ call.l > CfgM + 1
    /\ call.out.kind = "int"

\* C2: the single index preserves the order tau, then l, then m of the valid
\* triples: the index a call returns is above that of every lexicographically
\* smaller valid triple and below that of every larger one.
C2_OrderPreserving ==
    (ValidConfig /\ IndexCallDone /\ CalledTriple \in ValidTriples(CfgL, CfgM)) =>
        /\ call.out.kind = "int"
        /\ \A t \in ValidTriples(CfgL, CfgM) :
              /\ Lex(t, CalledTriple) => IndexOf(t) < call.out.val
              /\ Lex(CalledTriple, t) => call.out.val < IndexOf(t)

\* a call on a valid triple that has both a smaller and a larger valid triple
C2_Witness ==
    /\ ValidConfig /\ IndexCallDone
    /\ CalledTriple \in ValidTriples(CfgL, CfgM)
    /\ \E s, t \in ValidTriples(CfgL, CfgM) :
          Lex(s, CalledTriple) /\ Lex(CalledTriple, t)
    /\ call.m < 0 /\ call.tau = 1

\* C3: multi_to_single_index raises an index-range error for a triple that
\* is not valid under the configuration; it never returns an index for it.
C3_InvalidTripleRaises ==
    (ValidConfig /\ IndexCallDone /\ CalledTriple \notin ValidTriples(CfgL, CfgM)) =>
        call.out.kind = "IndexError"

\* C4: a call that selects an index_order other than 'tlm' raises, returns
\* nothing and does not leave the unsupported order stored.
C4_UnsupportedOrderRejected ==
    (call.kw.has_index_order /\ call.kw.index_order # "tlm") =>
        /\ call.out.kind \notin {"int", "None"}
        /\ index_order # call.kw.index_order

-----------------------------------------------------------------------------
(* Claims about the contour.                                               *)

NeffCalled == neff_result.kind # "none"

CW == contour.neff_waypoints

\* the step used for segment i (1-based) when there is one
StepOf(i) ==
    IF contour.neff_discretization.isList
    THEN contour.neff_discretization.steps[i]
    ELSE contour.neff_discretization.step

HasStep(i) ==
    contour.neff_discretization.isList => i <= Len(contour.neff_discretization.steps)

\* segment i is exactly k steps long
ExactMultiple(i, k) ==
    /\ HasStep(i) /\ StepOf(i) > 0
    /\ k * k * StepOf(i) * StepOf(i) = Dist2(CW[i], CW[i + 1])

\* sample s is the point a + (j / k) * (b - a)
IsPointAt(s, a, b, j, k) ==
    /\ s.re * k = (a.re * k + j * (b.re - a.re)) * s.den
    /\ s.im * k = (a.im * k + j * (b.im - a.im)) * s.den

RECURSIVE SumTo(_, _)
SumTo(f, n) == IF n = 0 THEN 0 ELSE SumTo(f, n - 1) + f[n]

Occurrences(q, x) == Cardinality({ j \in 1..Len(q) : q[j] = x })

AllStepsPositive == \A i \in 1..(Len(CW) - 1) : HasStep(i) /\ StepOf(i) > 0

AllWaypointsDiffer == \A i, j \in 1..Len(CW) : i # j => CW[i] # CW[j]

\* C6 as stated: with three or more waypoints the samples hold each interior
\* waypoint exactly once, and the total count is the sum of the per-segment
\* counts minus the number of interior waypoints.  (Read here for waypoints
\* that all differ, which is all a refutation needs.)
C6_InteriorWaypointOnce ==
    (NeffCalled /\ Len(CW) >= 3 /\ AllStepsPositive /\ AllWaypointsDiffer) =>
        /\ neff_result.kind = "array"
        /\ Len(neff_result.samples) =
               SumTo(neff_result.counts, Len(CW) - 1) - (Len(CW) - 2)
        /\ \A i \in 2..(Len(CW) - 1) :
               Occurrences(neff_result.samples, AsSample(CW[i])) = 1

\* C6 as amended: with three or more waypoints and positive steps the result
\* is the plain concatenation of the per-segment samples: the total count is
\* the sum of the per-segment counts, segment i starts at waypoint i, and an
\* interior waypoint that ends a segment of two or more samples is there
\* twice in a row, as the last sample of that segment and the first of the
\* next.
C6_InteriorWaypointRepeated ==
    (NeffCalled /\ Len(CW) >= 3 /\ AllStepsPositive) =>
        /\ neff_result.kind = "array"
        /\ Len(neff_result.samples) = SumTo(neff_result.counts, Len(CW) - 1)
        /\ \A i \in 2..(Len(CW) - 1) :
               LET before == SumTo(neff_result.counts, i - 1)
               IN  /\ neff_result.counts[i] >= 1
                   /\ neff_result.samples[before + 1] = AsSample(CW[i])
                   /\ neff_result.counts[i - 1] >= 2 =>
                         neff_result.samples[before] = AsSample(CW[i])

\* neff() was called on three distinct waypoints, both segments at least one
\* step long
C6_Witness ==
    /\ NeffCalled /\ Len(CW) = 3 /\ AllStepsPositive
    /\ neff_result.kind = "array"
    /\ neff_result.counts[1] >= 2 /\ neff_result.counts[2] >= 2
    /\ CW[1] # CW[2] /\ CW[2] # CW[3] /\ CW[1] # CW[3]

\* fewer than two waypoints, a scalar step that is zero or negative, or a
\* step list shorter than the number of segments
Malformed ==
    \/ Len(CW) < 2
    \/ ~contour.neff_discretization.isList /\ contour.neff_discretization.step <= 0
    \/ /\ contour.neff_discretization.isList
       /\ Len(contour.neff_discretization.steps) < Len(CW) - 1

\* C7: for malformed input neff() ends in an error and returns no samples.
\* (Read here for waypoints that all differ, which is all a refutation
\* needs.)
C7_MalformedRaises ==
    (NeffCalled /\ Malformed /\ AllWaypointsDiffer) => neff_result.kind # "array"

-----------------------------------------------------------------------------
(* Claims about k_z.                                                       *)

IsReal(a) == a.im = 0

\* C8 as stated: the returned kz never has a negative imaginary part, and
\* for real k_parallel < real k it is real and non-negative.  (Read here for
\* a positive wavenumber k only, which is all a refutation needs.)
C8_RealBelowK ==
    kz_call.called =>
        /\ kz_call.kz.im_sign >= 0
        /\ (IsReal(kz_call.k) /\ IsReal(kz_call.k_parallel) /\
            kz_call.k.re > 0 /\
            kz_call.k_parallel.re < kz_call.k.re) =>
               (kz_call.kz.im_sign = 0 /\ kz_call.kz.re_sign >= 0)

\* C8 as amended: the returned kz never has a negative imaginary part (it
\* is the principal root, negated exactly when that root has a negative
\* imaginary part), and for real k_parallel < real k with
\* |k_parallel| <= |k| it is real and non-negative.
C8_BranchCut ==
    kz_call.called =>
        LET root == np_sqrt(CxMinus(CxSquare(kz_call.k), CxSquare(kz_call.k_parallel)))
        IN  /\ kz_call.kz.im_sign >= 0
            /\ kz_call.kz.of = root.of
            /\ kz_call.kz = (IF root.im_sign < 0 THEN Negated(root) ELSE root)
            /\ (IsReal(kz_call.k) /\ IsReal(kz_call.k_parallel) /\
                kz_call.k_parallel.re < kz_call.k.re /\
                Abs(kz_call.k_parallel.re) <= Abs(kz_call.k.re)) =>
                   (kz_call.kz.im_sign = 0 /\ kz_call.kz.re_sign >= 0)

\* k_z was called where the principal root lies in the lower half plane and
\* was negated
C8_Witness ==
    /\ kz_call.called
    /\ np_sqrt(CxMinus(CxSquare(kz_call.k), CxSquare(kz_call.k_parallel))).im_sign < 0
    /\ kz_call.kz.im_sign > 0 /\ kz_call.kz.re_sign < 0

-----------------------------------------------------------------------------
(* Claims about the coupling block.                                        *)

\* the order m of the triple whose index is n
OrderOf(n) ==
    LET t == CHOOSE t \in ValidTriples(block_call.lmax, block_call.mmax) :
                 multi2single(t[1], t[2], t[3], block_call.lmax, block_call.mmax) = n
    IN  t[3]

\* C9: rho is the in-plane distance sqrt(dx^2 + dy^2) of receiver and
\* emitter; it is 0 only when both x and y agree.
C9_RhoIsInPlaneDistance ==
    block_call.called =>
        LET dx == block_call.receiving_particle_position[1] -
                  block_call.emitting_particle_position[1]
            dy == block_call.receiving_particle_position[2] -
                  block_call.emitting_particle_position[2]
        IN  /\ block_call.rel.rhos2s1_sq = dx * dx + dy * dy
            /\ block_call.rel.rhos2s1_sq = 0 => (dx = 0 /\ dy = 0)

\* C10: entry (n1, n2), row n1 the receiver's index and column n2 the
\* emitter's, is the integral times 4 * i^|m2 - m1| * exp(i (m2 - m1) phi)
\* with m1 = m(n1), m2 = m(n2) and phi the azimuth of receiver - emitter:
\* the multiple of phi at (n1, n2) is m(n2) - m(n1).  (Read here for
\* positions with different y, where phi is no multiple of pi and the sign
\* of the multiple shows in the value of the entry.)
C10_PhaseFactor ==
    (/\ block_call.called
     /\ block_call.receiving_particle_position[2] #
            block_call.emitting_particle_position[2]) =>
        /\ block_call.rel.phis2s1 =
              [arctan2_y |-> block_call.receiving_particle_position[2] -
                             block_call.emitting_particle_position[2],
               arctan2_x |-> block_call.receiving_particle_position[1] -
                             block_call.emitting_particle_position[1]]
        /\ \A n1, n2 \in 0..(block_call.blocksize - 1) :
              LET e == block_call.wr[n1][n2]
              IN  /\ e.factor = 4
                  /\ e.integral = <<n1, n2>>
                  /\ e.i_power = Abs(OrderOf(n2) - OrderOf(n1))
                  /\ e.phi_multiple = OrderOf(n2) - OrderOf(n1)

\* C11: with coincident lateral position (rho = 0) and the other factors
\* of the integrand finite, every entry (n1, n2) with m(n1) # m(n2) is zero.
C11_OnlyEqualOrdersAtRhoZero ==
    (/\ block_call.called
     /\ block_call.receiving_particle_position[1] =
            block_call.emitting_particle_position[1]
     /\ block_call.receiving_particle_position[2] =
            block_call.emitting_particle_position[2]
     /\ block_call.integrand_finite) =>
        /\ block_call.rel.rhos2s1_sq = 0
        /\ \A n1, n2 \in 0..(block_call.blocksize - 1) :
              OrderOf(n1) # OrderOf(n2) => block_call.value[n1][n2] = "zero"

\* the block of two particles above one another was computed, with entries
\* of different and of opposite orders
C11_Witness ==
    /\ block_call.called /\ block_call.integrand_finite
    /\ block_call.receiving_particle_position[1] =
           block_call.emitting_particle_position[1]
    /\ block_call.receiving_particle_position[2] =
           block_call.emitting_particle_position[2]
    /\ block_call.receiving_particle_position[3] #
           block_call.emitting_particle_position[3]
    /\ \E n1, n2 \in 0..(block_call.blocksize - 1) :
          /\ OrderOf(n1) = - OrderOf(n2) /\ OrderOf(n1) # 0
          /\ block_call.value[n1][n2] = "zero"

\* C12: the block is never returned with a non-finite entry: a non-finite
\* contour integral ends the call in an error.
C12_NonFiniteRaises ==
    (/\ block_call.called
     /\ \E n1, n2 \in 0..(block_call.blocksize - 1) :
           block_call.value[n1][n2] = "nonfinite") =>
        block_call.outcome # "returned"

\* the cells the k-th pass writes
Written(k) ==
    LET w == matrix_call.passes[k]
    IN  (w.row_start..(w.row_start + w.size - 1))
            \X (w.col_start..(w.col_start + w.size - 1))

\* C13: for P particles and block size N the matrix is (P*N) x (P*N); its
\* sub-block at rows i*N.., columns j*N.. is the coupling block with particle
\* i receiving and particle j emitting; the block is evaluated once per
\* ordered pair, and the writes are disjoint and cover the matrix.
C13_BlockMatrix ==
    (matrix_call.called /\ matrix_call.outcome = "returned") =>
        LET P == Len(matrix_call.particles)
            N == matrix_call.blocksize
            wr == matrix_call.wr
            passes == matrix_call.passes
        IN  /\ DOMAIN wr = 0..(P * N - 1)
            /\ \A r \in DOMAIN wr : DOMAIN wr[r] = 0..(P * N - 1)
            /\ \A i, j \in 0..(P - 1) :
                  LET blk == layer_mediated_coupling_block(
                                 matrix_call.particles[i + 1],
                                 matrix_call.particles[j + 1],
                                 matrix_call.lmax, matrix_call.mmax_spec,
                                 matrix_call.integrand_finite)
                  IN  /\ blk.blocksize = N
                      /\ \A n1, n2 \in 0..(N - 1) :
                            wr[i * N + n1][j * N + n2] = block_cell(blk, n1, n2)
                      /\ Cardinality({ k \in DOMAIN passes :
                              passes[k].s1 = i /\ passes[k].s2 = j }) = 1
            /\ \A k1, k2 \in DOMAIN passes :
                  k1 # k2 => Written(k1) \cap Written(k2) = {}
            /\ \A r, c \in 0..(P * N - 1) :
                  \E k \in DOMAIN passes : <<r, c>> \in Written(k)

\* a matrix of two particles at different places was returned
C13_Witness ==
    /\ matrix_call.called /\ matrix_call.outcome = "returned"
    /\ Len(matrix_call.particles) = 2
    /\ matrix_call.particles[1] # matrix_call.particles[2]
    /\ matrix_call.blocksize > 1
    /\ ~matrix_call.wr[matrix_call.blocksize][0].zero
    /\ matrix_call.wr[matrix_call.blocksize][0].receiver
           = matrix_call.particles[2]
    /\ matrix_call.wr[matrix_call.blocksize][0].emitter
           = matrix_call.particles[1]

\* C14: every index arrangement that is not particle-then-multipole ("s...")
\* is rejected with the 'not implemented' error (the ValueError of line
\* 162), no block is evaluated and no matrix is returned.
C14_OtherArrangementNotImplemented ==
    (/\ matrix_call.called
     /\ \/ Len(matrix_call.index_arrangement) = 0
        \/ matrix_call.index_arrangement[1] # "s") =>
        /\ matrix_call.outcome = "ValueError"
        /\ matrix_call.passes = <<>>
        /\ matrix_call.wr = <<>>

\* C16: for positive steps the samples of every segment start at its first
\* waypoint and end at its second, and the last sample of the contour is
\* the last waypoint, also when a segment is shorter than the step.
C16_SegmentsReachWaypoints ==
    (NeffCalled /\ Len(CW) >= 2 /\ AllStepsPositive) =>
        /\ neff_result.kind = "array"
        /\ \A i \in 1..(Len(CW) - 1) :
              /\ neff_result.counts[i] >= 1
              /\ neff_result.samples[SumTo(neff_result.counts, i - 1) + 1]
                     = AsSample(CW[i])
              /\ neff_result.samples[SumTo(neff_result.counts, i)]
                     = AsSample(CW[i + 1])
        /\ neff_result.samples[Len(neff_result.samples)]
               = AsSample(CW[Len(CW)])

-----------------------------------------------------------------------------
(* Claims about the stored truncation settings.                            *)

\* the settings a call with keywords kw computes with, when the stored ones
\* are those of the state before the call: the passed value, or else the
\* stored one, which is the one most recently passed
UsedDegree(kw) ==
    IF kw.has_l_max THEN Some(kw.l_max) ELSE maximal_multipole_degree

UsedOrder(kw) ==
    IF kw.has_m_max THEN kw.m_max ELSE maximal_multipole_order

UsedIndexOrder(kw) ==
    IF kw.has_index_order THEN kw.index_order ELSE index_order

\* C17: the settings are sticky.  Every call of either function stores the
\* keywords it passes and leaves the others as they were, so that a stored
\* setting is the value most recently passed; the call computes with the
\* passed or else the stored value; with m_max = None stored or passed it
\* computes with m_max = l_max; a call without keywords changes no setting.
C17_StickySettings ==
    [][ LET kw == call'.kw
            degree == UsedDegree(kw)
            morder == UsedOrder(kw)
            order == UsedIndexOrder(kw)
        IN  /\ maximal_multipole_degree' = degree
            /\ maximal_multipole_order' = morder
            /\ index_order' = order
            /\ kw = NoKw =>
                  UNCHANGED <<maximal_multipole_degree,
                              maximal_multipole_order, index_order>>
            /\ call'.fn = "multi_to_single_index" =>
                  call'.out = index_body(call'.tau, call'.l, call'.m,
                                         order, degree, morder)
            /\ call'.fn = "number_of_indices" =>
                  call'.out = number_of_indices_body(order, degree, morder)
            /\ (/\ call'.fn = "multi_to_single_index"
                /\ order = "tlm" /\ ~degree.isNone /\ morder.isNone) =>
                  call'.out = Returned(tlm_index(call'.tau, call'.l, call'.m,
                                                 degree.v, degree.v))
      ]_vars

\* a call without keywords returned an index: it computed with an l_max
\* that an earlier call had passed, here with one above a stored m_max
C17_Witness ==
    /\ IndexCallDone /\ call.kw = NoKw /\ call.out.kind = "int"
    /\ ~maximal_multipole_degree.isNone /\ ~maximal_multipole_order.isNone
    /\ maximal_multipole_order.v < maximal_multipole_degree.v

\* C18: multi_to_single_index(tau, l, m, l_max=L, m_max=M) is a function of
\* (tau, l, m, L, M) alone: whatever calls came before it, it returns the
\* index that the same call returns on the freshly imported module.
C18_ExplicitArgumentsOnly ==
    (/\ IndexCallDone
     /\ call.kw.has_l_max /\ call.kw.has_m_max /\ ~call.kw.has_index_order) =>
        call.out = Returned(tlm_index(call.tau, call.l, call.m, call.kw.l_max,
                                      IF call.kw.m_max.isNone
                                      THEN call.kw.l_max
                                      ELSE call.kw.m_max.v))

-----------------------------------------------------------------------------
(* Claims about Memoize.                                                   *)

NoCallRaised ==
    \A i \in 1..Len(memo_calls) : memo_calls[i].out.kind # "raised"

KeysCalled == { memo_calls[i].call.str : i \in 1..Len(memo_calls) }

\* the first call with the key
FirstWith(str) ==
    CHOOSE i \in 1..Len(memo_calls) :
        /\ memo_calls[i].call.str = str
        /\ \A j \in 1..(i - 1) : memo_calls[j].call.str # str

\* C15: in a sequence of calls none of which raised, the function was
\* invoked once for every serialized key, by the first call with the key;
\* every later call with the key returned what that invocation returned,
\* and the cache holds that result for the key, in every state from then on.
C15_InvokedOncePerKey ==
    NoCallRaised =>
        /\ DOMAIN memo = KeysCalled
        /\ \A str \in KeysCalled :
              LET first == FirstWith(str)
              IN  /\ memo_calls[first].invoked
                  /\ memo_calls[first].out.serial = first
                  /\ memo[str] = memo_calls[first].out
                  /\ \A i \in 1..Len(memo_calls) :
                        (i # first /\ memo_calls[i].call.str = str) =>
                            /\ ~memo_calls[i].invoked
                            /\ memo_calls[i].out = memo_calls[first].out

\* three calls were made with one key, and none raised
C15_Witness ==
    /\ NoCallRaised
    /\ Len(memo_calls) = 3
    /\ memo_calls[1].call.str = memo_calls[2].call.str
    /\ memo_calls[2].call.str = memo_calls[3].call.str
    /\ ~memo_calls[3].invoked

\* the call that a step adds
Added == memo_calls'[Len(memo_calls')]

\* the latest call so far with the key raised
LatestRaised(str) ==
    \E i \in 1..Len(memo_calls) :
        /\ memo_calls[i].call.str = str
        /\ memo_calls[i].out.kind = "raised"
        /\ \A j \in (i + 1)..Len(memo_calls) : memo_calls[j].call.str # str

\* C19: a call whose invocation raises ends with the exception and leaves
\* the cache as it was, without an entry for its key; the next call with
\* that key invokes the function again.
C19_RaiseLeavesCache ==
    [][ /\ Added.out.kind = "raised" =>
              /\ Added.invoked
              /\ memo' = memo
              /\ Added.call.str \notin DOMAIN memo'
        /\ LatestRaised(Added.call.str) => Added.invoked
      ]_vars

\* a call raised after another had stored its result, and the next call
\* with the key of the one that raised invoked the function and returned
C19_Witness ==
    /\ Len(memo_calls) = 3
    /\ memo_calls[1].out.kind = "value"
    /\ memo_calls[2].out.kind = "raised"
    /\ memo_calls[3].call.str = memo_calls[2].call.str
    /\ memo_calls[3].invoked /\ memo_calls[3].out.kind = "value"
    /\ DOMAIN memo = { memo_calls[1].call.str, memo_calls[3].call.str }

\* the values a call binds to x and to y
Binding(c) ==
    << bound_value(c.args, c.kwds, 1, "x"), bound_value(c.args, c.kwds, 2, "y") >>

\* C20 as stated: two calls that bind the same values to the same
\* parameters have the same cache entry, however the arguments are passed,
\* and the function is invoked only for the first of them.
C20_SameBindingSameEntry ==
    \A i, j \in 1..Len(memo_calls) :
        (i < j /\ Binding(memo_calls[i].call) = Binding(memo_calls[j].call)) =>
            /\ memo_calls[i].call.str = memo_calls[j].call.str
            /\ memo_calls[i].out.kind = "value" => ~memo_calls[j].invoked

\* C20 as amended: two calls have the same cache entry exactly when they
\* pass the same positional values and the same keywords with the same
\* values in the same order; calls that bind the same values but pass them
\* differently have different entries, and the function is invoked for
\* each of them.
C20_SameEntryIffSameForm ==
    \A i, j \in 1..Len(memo_calls) :
        /\ memo_calls[i].call.str = memo_calls[j].call.str
              <=> /\ memo_calls[i].call.args = memo_calls[j].call.args
                  /\ memo_calls[i].call.kwds = memo_calls[j].call.kwds
        /\ (/\ i < j
            /\ Binding(memo_calls[i].call) = Binding(memo_calls[j].call)
            /\ \A k \in 1..(j - 1) :
                  \/ memo_calls[k].call.args # memo_calls[j].call.args
                  \/ memo_calls[k].call.kwds # memo_calls[j].call.kwds) =>
              memo_calls[j].invoked

\* f(x=.., y=..) was called and then f(y=.., x=..) with the same values,
\* and both invoked the function
C20_Witness ==
    /\ Len(memo_calls) >= 2
    /\ memo_calls[1].call.args = <<>> /\ memo_calls[2].call.args = <<>>
    /\ Binding(memo_calls[1].call) = Binding(memo_calls[2].call)
    /\ memo_calls[1].call.kwds # memo_calls[2].call.kwds
    /\ memo_calls[1].out.kind = "value" /\ memo_calls[2].out.kind = "value"
    /\ memo_calls[2].invoked
    /\ Cardinality(DOMAIN memo) >= 2

\* C21: when threads call the memoized function concurrently with an equal
\* key, then under every interleaving the function is invoked by at most
\* one of them, and those that have returned have the same result.
C21_ConcurrentCallsInvokeOnce ==
    \A t1, t2 \in Threads :
        (/\ t1 # t2
         /\ thread[t1].pc # "idle" /\ thread[t2].pc # "idle"
         /\ thread[t1].call.str = thread[t2].call.str) =>
            /\ ~(thread[t1].invoked /\ thread[t2].invoked)
            /\ (thread[t1].pc = "returned" /\ thread[t2].pc = "returned") =>
                  thread[t1].out = thread[t2].out

\* the slot that a visit of the loops writes
SlotOf(v) ==
    multi2single(v[1], v[2], v[3], block_call.lmax, block_call.mmax)

\* C22: for lmax >= 1 and mmax <= lmax the loops over tau, m and l visit
\* every valid triple (tau, l, m) exactly once and no other, every one of
\* the blocksize slots is written by exactly one visit, and every Bessel
\* order |m(n1) - m(n2)| looked up is one of the precomputed 0..2*lmax.
C22_LoopsCoverSlotsOnce ==
    block_call.called =>
        LET visits == block_call.visits
            slots == 0..(block_call.blocksize - 1)
        IN  /\ \A i \in 1..Len(visits) :
                  /\ visits[i] \in ValidTriples(block_call.lmax, block_call.mmax)
                  /\ SlotOf(visits[i]) \in slots
            /\ \A t \in ValidTriples(block_call.lmax, block_call.mmax) :
                  Cardinality({ i \in 1..Len(visits) : visits[i] = t }) = 1
            /\ \A n \in slots :
                  /\ Cardinality({ i \in 1..Len(visits) :
                                      SlotOf(visits[i]) = n }) = 1
                  /\ \E i \in 1..Len(visits) :
                        /\ SlotOf(visits[i]) = n
                        /\ block_call.m_vec[n] = visits[i][3]
            /\ \A n1, n2 \in slots :
                  /\ block_call.wr[n1][n2].bessel_order
                         = Abs(block_call.m_vec[n1] - block_call.m_vec[n2])
                  /\ block_call.wr[n1][n2].bessel_order
                         \in block_call.bessel_list_orders

\* a block was computed with 1 <= mmax < lmax, where the range of l depends
\* on m, and the largest order difference 2*mmax was looked up
C22_Witness ==
    /\ block_call.called
    /\ 1 <= block_call.mmax /\ block_call.mmax < block_call.lmax
    /\ \E n1, n2 \in 0..(block_call.blocksize - 1) :
          block_call.wr[n1][n2].bessel_order = 2 * block_call.mmax

-----------------------------------------------------------------------------
(* Claims about the initial field.                                         *)

\* C23: plane_wave_expansion(layer_system, i) of a PlaneWave or a
\* GaussianBeam excites layer 0 with an upgoing wave when cos(polar_angle)
\* is above 0 and else the top layer with a downgoing wave; the excitation
\* is added to the upgoing (downgoing) expansion returned exactly when i is
\* the excitation layer, and all else returned is the layer system's
\* response from the excitation layer to layer i.
C23_ExcitationLayer ==
    pwe_call.called =>
        LET up == np_cos_sign(initial_field.polar_angle) > 0
            top == pwe_call.number_of_layers - 1
            iexc == IF up THEN 0 ELSE top
        IN  /\ pwe_call.excitation_layer = iexc
            /\ pwe_call.kind = IF up THEN "upgoing" ELSE "downgoing"
            /\ pwe_call.pwe_up.plus_excitation <=> (up /\ pwe_call.i = iexc)
            /\ pwe_call.pwe_down.plus_excitation <=> (~up /\ pwe_call.i = iexc)
            /\ pwe_call.pwe_up.part = "up" /\ pwe_call.pwe_down.part = "down"
            /\ pwe_call.pwe_up.from_layer = iexc
            /\ pwe_call.pwe_down.from_layer = iexc
            /\ pwe_call.pwe_up.to_layer = pwe_call.i
            /\ pwe_call.pwe_down.to_layer = pwe_call.i

\* a plane wave from the top (polar angle pi) was expanded in the top layer
\* of a system of two or more layers
C23_Witness ==
    /\ pwe_call.called /\ initial_field.class = "PlaneWave"
    /\ initial_field.polar_angle = 4
    /\ pwe_call.number_of_layers >= 2
    /\ pwe_call.i = pwe_call.number_of_layers - 1
    /\ pwe_call.pwe_down.plus_excitation /\ ~pwe_call.pwe_up.plus_excitation

=============================================================================
